---------------------------- MODULE Spec2Model ----------------------------
(***************************************************************************)
(* Model of src/src/extractors/reference_parser.py: parse_author and       *)
(* parse_grobid_xml, the extraction of a main-paper record and a list of   *)
(* reference records from a GROBID TEI-XML document.                       *)
(*                                                                         *)
(* A text is a sequence of one-character strings.  Python's None is the    *)
(* one-element sequence <<"None">>, which is no text.  An XML element is a *)
(* record of its tag, the attributes the parser reads, its text and its    *)
(* direct parent's tag.  A tree is the header's elements in document order *)
(* followed by the biblStruct entries, each with its own elements.         *)
(***************************************************************************)
EXTENDS Naturals, Sequences, FiniteSets

VARIABLES doc, soup, pc, main_paper, references, i, result

vars == <<doc, soup, pc, main_paper, references, i, result>>

-----------------------------------------------------------------------------
(* Bounds of the documents *)

MaxLen == 2

MaxEntries == 2

MaxForenames == 2

MaxNodes == 2

-----------------------------------------------------------------------------
(* Texts and Python's string operations *)

None == <<"None">>

Whitespace == {" "}

Texts(alphabet, n) == UNION {[1..k -> alphabet] : k \in 0..n}

RECURSIVE lstrip(_)
lstrip(t) ==
    IF t # <<>> /\ Head(t) \in Whitespace THEN lstrip(Tail(t)) ELSE t

RECURSIVE rstrip(_)
rstrip(t) ==
    IF t # <<>> /\ t[Len(t)] \in Whitespace
    THEN rstrip(SubSeq(t, 1, Len(t) - 1))
    ELSE t

\* str.strip()
strip(t) == rstrip(lstrip(t))

\* str.split('-')[0]: the part before the first hyphen, the whole when none
RECURSIVE split_first(_)
split_first(t) ==
    IF t = <<>> \/ Head(t) = "-" THEN <<>>
    ELSE <<Head(t)>> \o split_first(Tail(t))

\* str.startswith(p)
startswith(t, p) == Len(t) >= Len(p) /\ SubSeq(t, 1, Len(p)) = p

\* sep.join(parts)
RECURSIVE join(_, _)
join(sep, parts) ==
    IF parts = <<>> THEN <<>>
    ELSE IF Len(parts) = 1 THEN parts[1]
    ELSE parts[1] \o sep \o join(sep, Tail(parts))

\* dict.get(key, ''): the attribute's value, '' when the attribute is absent
get(value) == IF value = None THEN <<>> ELSE value

-----------------------------------------------------------------------------
(* Elements and trees *)

El(tag) ==
    [tag |-> tag, level |-> "", type |-> "", unit |-> "", parent |-> "",
     when |-> None, from |-> None, to |-> None, text |-> <<>>,
     persName |-> FALSE, forenames |-> <<>>, surname |-> None,
     strings |-> <<>>]

Entry(xmlid, id, monogr, children) ==
    [xmlid |-> xmlid, id |-> id, monogr |-> monogr, children |-> children]

Tree(header, sourceDesc, entries) ==
    [header |-> header, sourceDesc |-> sourceDesc, entries |-> entries]

NoTree == Tree(<<>>, FALSE, <<>>)

RECURSIVE EntryElements(_)
EntryElements(entries) ==
    IF entries = <<>> THEN <<>>
    ELSE Head(entries).children \o EntryElements(Tail(entries))

\* every element of the document in document order: header first
Descendants(tree) == tree.header \o EntryElements(tree.entries)

\* Tag.find(...): the first match in document order, as a sequence of 0 or 1
find(found) == IF found = <<>> THEN <<>> ELSE <<Head(found)>>

-----------------------------------------------------------------------------
(* parse_author *)

\* ' '.join([f.text for f in forenames]) if forenames else ''
forename_text(author_elem) ==
    IF author_elem.forenames # <<>>
    THEN join(<<" ">>, author_elem.forenames)
    ELSE <<>>

\* surname.text if surname else ''
surname_text(author_elem) == get(author_elem.surname)

\* the Person, as a sequence of 0 (None) or 1 record
parse_author(author_elem) ==
    IF ~author_elem.persName THEN <<>>
    ELSE IF forename_text(author_elem) = <<>> /\ surname_text(author_elem) = <<>>
    THEN <<>>
    ELSE <<[forename  |-> forename_text(author_elem),
            surname   |-> surname_text(author_elem),
            full_name |-> strip(forename_text(author_elem) \o <<" ">>
                                \o surname_text(author_elem))]>>

\* for author_elem in ...: author = parse_author(...); if author: append
RECURSIVE parse_authors(_)
parse_authors(author_elems) ==
    IF author_elems = <<>> THEN <<>>
    ELSE parse_author(Head(author_elems)) \o parse_authors(Tail(author_elems))

-----------------------------------------------------------------------------
(* parse_grobid_xml: the main paper *)

IsMainTitle(e) == e.tag = "title" /\ e.level = "a" /\ e.type = "main"

IsSourceDescAuthor(e) == e.tag = "author" /\ e.parent = "sourceDesc"

IsPublishedDate(e) == e.tag = "date" /\ e.type = "published"

IsArxiv(e) == e.tag = "idno" /\ e.type = "arXiv"

IsDoi(e) == e.tag = "idno" /\ e.type = "DOI"

IsAbstract(e) == e.tag = "abstract"

\* title_elem.text.strip() if title_elem else "Unknown"
Unknown == <<"U", "n", "k", "n", "o", "w", "n">>

MainTitle(tree) ==
    LET title_elem == find(SelectSeq(Descendants(tree), IsMainTitle))
    IN  IF title_elem # <<>> THEN strip(title_elem[1].text) ELSE Unknown

\* source_desc.find_all('author', recursive=False), when sourceDesc is found
MainAuthors(tree) ==
    IF tree.sourceDesc
    THEN parse_authors(SelectSeq(tree.header, IsSourceDescAuthor))
    ELSE <<>>

\* date_elem.get('when', '').split('-')[0] if date_elem else None
MainYear(tree) ==
    LET date_elem == find(SelectSeq(Descendants(tree), IsPublishedDate))
    IN  IF date_elem # <<>> THEN split_first(get(date_elem[1].when)) ELSE None

MainArxiv(tree) ==
    LET arxiv_elem == find(SelectSeq(Descendants(tree), IsArxiv))
    IN  IF arxiv_elem # <<>> THEN arxiv_elem[1].text ELSE None

MainDoi(tree) ==
    LET doi_elem == find(SelectSeq(Descendants(tree), IsDoi))
    IN  IF doi_elem # <<>> THEN doi_elem[1].text ELSE None

\* Tag.get_text(strip=True): every descendant string stripped, the empty ones
\* dropped, the rest joined with the empty separator
RECURSIVE get_text_strip(_)
get_text_strip(strings) ==
    IF strings = <<>> THEN <<>>
    ELSE strip(Head(strings)) \o get_text_strip(Tail(strings))

MainAbstract(tree) ==
    LET abstract_elem == find(SelectSeq(Descendants(tree), IsAbstract))
    IN  IF abstract_elem # <<>> THEN get_text_strip(abstract_elem[1].strings)
        ELSE None

MainPaper(tree) ==
    [title    |-> MainTitle(tree),
     authors  |-> MainAuthors(tree),
     year     |-> MainYear(tree),
     arxiv    |-> MainArxiv(tree),
     doi      |-> MainDoi(tree),
     abstract |-> MainAbstract(tree)]

-----------------------------------------------------------------------------
(* parse_grobid_xml: one reference *)

IsTitleA(e) == e.tag = "title" /\ e.level = "a"

IsTitleM(e) == e.tag = "title" /\ e.level = "m"

IsAuthor(e) == e.tag = "author"

IsMonogrTitle(e) == e.tag = "title" /\ e.parent = "monogr"

IsPageScope(e) == e.tag = "biblScope" /\ e.unit = "page"

IsVolumeScope(e) == e.tag = "biblScope" /\ e.unit = "volume"

\* biblStruct.get('xml:id', ''): the attribute stored under the name xml:id
grobid_id(biblStruct) == get(biblStruct.xmlid)

\* not grobid_id.startswith('b') -> continue
Accepted(biblStruct) == startswith(grobid_id(biblStruct), <<"b">>)

NoTitle == <<"N", "o", " ", "t", "i", "t", "l", "e">>

RefTitle(biblStruct) ==
    LET a == find(SelectSeq(biblStruct.children, IsTitleA))
        title_elem == IF a = <<>>
                      THEN find(SelectSeq(biblStruct.children, IsTitleM))
                      ELSE a
    IN  IF title_elem # <<>> THEN strip(title_elem[1].text) ELSE NoTitle

RefAuthors(biblStruct) ==
    parse_authors(SelectSeq(biblStruct.children, IsAuthor))

RefYear(biblStruct) ==
    LET date_elem == find(SelectSeq(biblStruct.children, IsPublishedDate))
    IN  IF date_elem # <<>> /\ get(date_elem[1].when) # <<>>
        THEN split_first(get(date_elem[1].when))
        ELSE None

RefDoi(biblStruct) ==
    LET doi_elem == find(SelectSeq(biblStruct.children, IsDoi))
    IN  IF doi_elem # <<>> THEN doi_elem[1].text ELSE None

RefArxiv(biblStruct) ==
    LET arxiv_elem == find(SelectSeq(biblStruct.children, IsArxiv))
    IN  IF arxiv_elem # <<>> THEN arxiv_elem[1].text ELSE None

RefVenue(biblStruct) ==
    LET venue_elem == find(SelectSeq(biblStruct.children, IsMonogrTitle))
    IN  IF biblStruct.monogr /\ venue_elem # <<>>
        THEN strip(venue_elem[1].text)
        ELSE None

PagesAlwaysRange(from_page, to_page) ==
    IF from_page # <<>> THEN from_page \o <<"-">> \o to_page ELSE None

\* the combination of the page scope's from and to attributes
Pages(from_page, to_page) ==
    IF from_page # <<>> /\ to_page # <<>> THEN from_page \o <<"-">> \o to_page
    ELSE IF from_page # <<>> THEN from_page
    ELSE None

RefPages(biblStruct) ==
    LET page_elem == find(SelectSeq(biblStruct.children, IsPageScope))
    IN  IF page_elem # <<>>
        THEN Pages(get(page_elem[1].from), get(page_elem[1].to))
        ELSE None

RefVolume(biblStruct) ==
    LET volume_elem == find(SelectSeq(biblStruct.children, IsVolumeScope))
    IN  IF volume_elem # <<>> THEN strip(volume_elem[1].text) ELSE None

Reference(biblStruct) ==
    [title          |-> RefTitle(biblStruct),
     authors        |-> RefAuthors(biblStruct),
     year           |-> RefYear(biblStruct),
     doi            |-> RefDoi(biblStruct),
     arxiv          |-> RefArxiv(biblStruct),
     venue          |-> RefVenue(biblStruct),
     pages          |-> RefPages(biblStruct),
     volume         |-> RefVolume(biblStruct),
     grobid_id      |-> grobid_id(biblStruct),
     paper_id       |-> None,
     citation_count |-> None,
     full_abstract  |-> None]

PrependReference(refs, ref) == <<ref>> \o refs

\* references.append(ref)
AppendReference(refs, ref) == Append(refs, ref)

\* the whole loop over soup.find_all('biblStruct')
RECURSIVE References(_)
References(entries) ==
    IF entries = <<>> THEN <<>>
    ELSE LET rest == References(SubSeq(entries, 1, Len(entries) - 1))
             last == entries[Len(entries)]
         IN  IF Accepted(last) THEN AppendReference(rest, Reference(last))
             ELSE rest

-----------------------------------------------------------------------------
(* The run of parse_grobid_xml on one document *)

\* BeautifulSoup(f, 'xml'): lxml's recovering parser builds a tree from any
\* content and reports no error
Load(document) == document.tree

NoRecord ==
    [title |-> None, authors |-> <<>>, year |-> None, arxiv |-> None,
     doi |-> None, abstract |-> None]

NoResult == [main_paper |-> NoRecord, references |-> <<>>]

LoadDocument ==
    /\ pc = "start"
    /\ soup' = Load(doc)
    /\ pc' = "main"
    /\ UNCHANGED <<doc, main_paper, references, i, result>>

ExtractMainPaper ==
    /\ pc = "main"
    /\ main_paper' = MainPaper(soup)
    /\ references' = <<>>
    /\ i' = 1
    /\ pc' = "refs"
    /\ UNCHANGED <<doc, soup, result>>

SkipEntry ==
    /\ pc = "refs"
    /\ i <= Len(soup.entries)
    /\ ~Accepted(soup.entries[i])
    /\ i' = i + 1
    /\ UNCHANGED <<doc, soup, pc, main_paper, references, result>>

ParseReference ==
    /\ pc = "refs"
    /\ i <= Len(soup.entries)
    /\ Accepted(soup.entries[i])
    /\ references' = AppendReference(references, Reference(soup.entries[i]))
    /\ i' = i + 1
    /\ UNCHANGED <<doc, soup, pc, main_paper, result>>

ReturnResult ==
    /\ pc = "refs"
    /\ i > Len(soup.entries)
    /\ result' = [main_paper |-> main_paper, references |-> references]
    /\ pc' = "done"
    /\ UNCHANGED <<doc, soup, main_paper, references, i>>

Next ==
    \/ LoadDocument
    \/ ExtractMainPaper
    \/ SkipEntry
    \/ ParseReference
    \/ ReturnResult

-----------------------------------------------------------------------------
(* The documents parsed *)

Document(wellFormed, tree) == [wellFormed |-> wellFormed, tree |-> tree]

Seqs(S, n) == UNION {[1..k -> S] : k \in 0..n}

Opt(present, e) == IF present THEN <<e>> ELSE <<>>

B0 == <<"b", "0">>

B1 == <<"b", "1">>

Title(level, type, text) ==
    [El("title") EXCEPT !.level = level, !.type = type, !.text = text]

Date(when) == [El("date") EXCEPT !.type = "published", !.when = when]

Idno(type, text) == [El("idno") EXCEPT !.type = type, !.text = text]

Scope(unit, from, to, text) ==
    [El("biblScope") EXCEPT !.unit = unit, !.from = from, !.to = to,
                            !.text = text]

Author(parent, forenames, surname) ==
    [El("author") EXCEPT !.parent = parent, !.persName = TRUE,
                         !.forenames = forenames, !.surname = surname]

Abstract(strings) == [El("abstract") EXCEPT !.strings = strings]

\* identifiers: absent, or written as xml:id="..." or as id="..."
IdTexts == Texts({"b", "i", "0"}, MaxLen)

IdEntries ==
    {Entry(None, None, FALSE, <<>>)}
    \cup {Entry(t, None, FALSE, <<>>) : t \in IdTexts}
    \cup {Entry(None, t, FALSE, <<>>) : t \in IdTexts}

IdDocs == {Document(TRUE, Tree(<<>>, FALSE, <<e>>)) : e \in IdEntries}

\* several entries, accepted and not, repeated identifiers included
SeqEntries ==
    {Entry(x, None, FALSE, <<>>) : x \in {B0, B1, <<"i", "0">>, None}}

OrderDocs ==
    {Document(TRUE, Tree(<<>>, FALSE, es)) : es \in Seqs(SeqEntries, MaxEntries)}

\* content with an unclosed tag, and the tree the parser recovers from it
MalformedDocs ==
    {Document(FALSE, Tree(<<>>, FALSE, <<e>>)) : e \in SeqEntries}

\* titles: missing, empty, blank, padded
TitleTexts == Texts({"a", " "}, MaxLen)

HeaderTitles == {<<>>} \cup {<<Title("a", "main", t)>> : t \in TitleTexts}

EntryTitles ==
    {<<>>, <<Title("m", "", <<"m">>), Title("a", "", <<"a">>)>>}
    \cup {<<Title(lv, "", t)>> : lv \in {"a", "m", "j"}, t \in TitleTexts}

TitleDocs ==
    {Document(TRUE, Tree(h, FALSE, <<Entry(B0, None, FALSE, c)>>)) :
        h \in HeaderTitles, c \in EntryTitles}

\* which of title, date, DOI and arXiv the header and the one entry hold
Fields == {"title", "date", "doi", "arxiv"}

FieldElems(S, text, when) ==
    Opt("title" \in S, Title("a", "main", text))
    \o Opt("date" \in S, Date(when))
    \o Opt("doi" \in S, Idno("DOI", text))
    \o Opt("arxiv" \in S, Idno("arXiv", text))

ScopeDocs ==
    {Document(TRUE, Tree(FieldElems(H, <<"h">>, <<"1">>), FALSE,
                         <<Entry(x, None, FALSE, FieldElems(R, <<"r">>, <<"2">>))>>)) :
        H \in SUBSET Fields, R \in SUBSET Fields, x \in {B0, None}}

\* dates: no element, no attribute, empty, with and without hyphens
IsoDate == <<"2", "0", "2", "0", "-", "0", "5", "-", "0", "1">>

WhenValues == {None, IsoDate} \cup Texts({"2", "-"}, MaxLen)

Dates == {<<>>} \cup {<<Date(w)>> : w \in WhenValues}

YearDocs ==
    {Document(TRUE, Tree(h, FALSE, <<Entry(B0, None, FALSE, c)>>)) :
        h \in Dates, c \in Dates}

\* authors: without persName, with empty, blank and real name parts
NameTexts == {<<>>, <<" ">>, <<"a">>}

Persons(parent) ==
    {[El("author") EXCEPT !.parent = parent]}
    \cup {Author(parent, f, s) : f \in Seqs(NameTexts, MaxForenames),
                                 s \in NameTexts \cup {None}}

FewPersons(parent) ==
    {Author(parent, <<f>>, <<"s">>) : f \in NameTexts}

AuthorDocs ==
    {Document(TRUE, Tree(<<a>>, TRUE, <<>>)) : a \in Persons("sourceDesc")}
    \cup {Document(TRUE, Tree(<<a>>, sd, <<>>)) :
             a \in FewPersons("analytic"), sd \in BOOLEAN}
    \cup {Document(TRUE, Tree(<<>>, FALSE, <<Entry(B0, None, FALSE, <<a>>)>>)) :
             a \in Persons("analytic")}
    \cup {Document(TRUE, Tree(<<a, b>>, TRUE, <<Entry(B1, None, FALSE, <<b, a>>)>>)) :
             a \in FewPersons("sourceDesc"), b \in FewPersons("sourceDesc")}

\* page scopes: none, behind a volume scope, from and to absent, empty or set
PageValues == {None} \cup Texts({"1"}, MaxLen)

PageScopes ==
    {<<>>, <<Scope("volume", None, None, <<" ", "7">>)>>}
    \cup {<<Scope("page", f, t, <<>>)>> : f \in PageValues, t \in PageValues}
    \cup {<<Scope("volume", f, t, <<"7">>), Scope("page", t, f, <<>>),
            Scope("page", <<"9">>, <<"9">>, <<>>)>> :
             f \in PageValues, t \in PageValues}

PagesDocs ==
    {Document(TRUE, Tree(<<>>, FALSE, <<Entry(B0, None, FALSE, c)>>)) :
        c \in PageScopes}

\* abstracts: none, or the text nodes of the abstract container in order
AbstractDocs ==
    {Document(TRUE, Tree(<<>>, FALSE, <<>>))}
    \cup {Document(TRUE, Tree(<<Abstract(n)>>, FALSE, <<>>)) :
             n \in Seqs(Texts({"a", " "}, MaxLen), MaxNodes)}

\* a document shaped like the conversion service's output
FullDoc ==
    Document(TRUE,
        Tree(<<Title("a", "main", <<"T">>),
               Author("sourceDesc", <<<<"A">>, <<"B">>>>, <<"C">>),
               Date(IsoDate), Idno("arXiv", <<"x">>), Idno("DOI", <<"d">>),
               Abstract(<<<<"a", " ">>, <<"b">>>>)>>,
             TRUE,
             <<Entry(None, None, TRUE, <<Title("a", "main", <<"T">>)>>),
               Entry(B0, None, TRUE,
                     <<Title("a", "main", <<"R">>),
                       Author("analytic", <<<<"D">>>>, <<"E">>),
                       [Title("j", "", <<"V", " ">>) EXCEPT !.parent = "monogr"],
                       Scope("volume", None, None, <<"7">>),
                       Scope("page", <<"1">>, <<"9">>, <<>>),
                       Date(IsoDate)>>)>>))

Docs ==
    IdDocs \cup OrderDocs \cup MalformedDocs \cup TitleDocs \cup ScopeDocs
    \cup YearDocs \cup AuthorDocs \cup PagesDocs \cup AbstractDocs \cup {FullDoc}

Init ==
    /\ doc \in Docs
    /\ soup = NoTree
    /\ pc = "start"
    /\ main_paper = NoRecord
    /\ references = <<>>
    /\ i = 0
    /\ result = NoResult

Spec == Init /\ [][Next]_vars

-----------------------------------------------------------------------------
(* The claims *)

Done == pc = "done"

\* the entries the loop accepted, in document order
AcceptedEntries == SelectSeq(soup.entries, Accepted)

present(value) == value # None /\ value # <<>>

Digits == {"0", "1", "2", "3", "4", "5", "6", "7", "8", "9"}

IsBDigits(t) ==
    /\ Len(t) >= 2
    /\ t[1] = "b"
    /\ \A k \in 2..Len(t) : t[k] \in Digits

\* C1: every reference of the result comes from an entry whose identifier is
\* a lowercase b followed by one or more digits.
C1_OnlyBDigitIds ==
    Done => \A k \in 1..Len(result.references) :
                IsBDigits(result.references[k].grobid_id)

\* C2: the title of the main paper and of every reference is neither null
\* nor the empty string.
C2_TitleNeverEmpty ==
    Done => /\ present(result.main_paper.title)
            /\ \A k \in 1..Len(result.references) :
                   present(result.references[k].title)

\* C3: for content that is not well-formed XML the parse never returns: no
\* result object, partial or complete, is produced.
C3_MalformedReturnsNothing ==
    ~doc.wellFormed => ~Done /\ result = NoResult

NonBlank(author_elem) ==
    /\ author_elem.persName
    /\ \/ strip(join(<<" ">>, author_elem.forenames)) # <<>>
       \/ strip(get(author_elem.surname)) # <<>>

FullNames(authors) == [k \in 1..Len(authors) |-> authors[k].full_name]

ExpectedNames(author_elems) ==
    LET kept == SelectSeq(author_elems, NonBlank)
    IN  [k \in 1..Len(kept) |->
            strip(join(<<" ">>, kept[k].forenames) \o <<" ">>
                  \o get(kept[k].surname))]

\* C4: an author element is in the author list if and only if its joined
\* forenames or its surname is non-empty after trimming.
C4_AuthorIffNonBlank ==
    Done =>
        /\ FullNames(result.main_paper.authors) =
               ExpectedNames(IF soup.sourceDesc
                             THEN SelectSeq(soup.header, IsSourceDescAuthor)
                             ELSE <<>>)
        /\ Len(result.references) = Len(AcceptedEntries)
        /\ \A k \in 1..Len(result.references) :
               FullNames(result.references[k].authors) =
                   ExpectedNames(SelectSeq(AcceptedEntries[k].children, IsAuthor))

ExpectedYear(dates) ==
    IF dates = <<>> \/ ~present(dates[1].when) THEN None
    ELSE split_first(dates[1].when)

\* C5: the year is the part of the published date's when attribute before
\* the first hyphen, null when the element or the attribute is missing or
\* empty, and never the empty string.
C5_YearOrAbsent ==
    Done =>
        /\ result.main_paper.year =
               ExpectedYear(SelectSeq(Descendants(soup), IsPublishedDate))
        /\ result.main_paper.year # <<>>
        /\ Len(result.references) = Len(AcceptedEntries)
        /\ \A k \in 1..Len(result.references) :
               /\ result.references[k].year =
                      ExpectedYear(SelectSeq(AcceptedEntries[k].children,
                                             IsPublishedDate))
               /\ result.references[k].year # <<>>

\* C6: title, year, doi and arxiv of the main paper come from the first
\* matching element of the header, never from inside an entry; without a
\* matching header element the field is null (the title: "Unknown").
C6_MainPaperFromHeaderOnly ==
    Done =>
        LET header == Tree(soup.header, soup.sourceDesc, <<>>)
        IN  /\ result.main_paper.title = MainTitle(header)
            /\ result.main_paper.year = MainYear(header)
            /\ result.main_paper.doi = MainDoi(header)
            /\ result.main_paper.arxiv = MainArxiv(header)

\* C7: the references are the accepted entries in document order, one
\* record per accepted entry, carrying the entry's identifier; a document
\* without entries gives the empty sequence.
C7_ReferencesInDocumentOrder ==
    Done =>
        /\ Len(result.references) = Len(AcceptedEntries)
        /\ \A k \in 1..Len(AcceptedEntries) :
               /\ result.references[k].grobid_id = AcceptedEntries[k].xmlid
               /\ result.references[k] = Reference(AcceptedEntries[k])
        /\ soup.entries = <<>> => result.references = <<>>

C7_TwoReferencesInOrder ==
    /\ Done
    /\ Len(soup.entries) = 2
    /\ Len(result.references) = 2
    /\ result.references[1].grobid_id = B1
    /\ result.references[2].grobid_id = B0

ExpectedPages(biblStruct) ==
    LET scopes == SelectSeq(biblStruct.children, IsPageScope)
    IN  IF scopes = <<>> THEN None
        ELSE IF present(scopes[1].from) /\ present(scopes[1].to)
        THEN scopes[1].from \o <<"-">> \o scopes[1].to
        ELSE IF present(scopes[1].from) THEN scopes[1].from
        ELSE None

\* C8: pages is from-to when the page scope has both attributes non-empty,
\* from when only from is, and null in every other case.
C8_PagesCombination ==
    Done =>
        /\ Len(result.references) = Len(AcceptedEntries)
        /\ \A k \in 1..Len(result.references) :
               result.references[k].pages = ExpectedPages(AcceptedEntries[k])

C8_OnlyFromPage ==
    /\ Done
    /\ Len(AcceptedEntries) = 1
    /\ Len(result.references) = 1
    /\ LET scopes == SelectSeq(AcceptedEntries[1].children, IsPageScope)
       IN  /\ scopes # <<>>
           /\ scopes[1].from = <<"1">>
           /\ scopes[1].to = None
    /\ result.references[1].pages = <<"1">>

\* the same document with every entry identifier written the other way:
\* xml:id="..." as id="...", id="..." as xml:id="..."
OtherPrefix(biblStruct) ==
    [biblStruct EXCEPT !.xmlid = biblStruct.id, !.id = biblStruct.xmlid]

OtherPrefixes(entries) == [k \in 1..Len(entries) |-> OtherPrefix(entries[k])]

\* C9: two documents that differ only in whether the entry identifier is
\* written with the namespace prefix or without it give the same references.
C9_IdByLocalName ==
    Done => result.references = References(OtherPrefixes(soup.entries))

RECURSIVE collapse(_)
collapse(t) ==
    IF Len(t) < 2 THEN t
    ELSE IF t[1] \in Whitespace /\ t[2] \in Whitespace THEN collapse(Tail(t))
    ELSE <<t[1]>> \o collapse(Tail(t))

RECURSIVE concat(_)
concat(strings) ==
    IF strings = <<>> THEN <<>> ELSE Head(strings) \o concat(Tail(strings))

\* C10: the abstract is all text of the abstract container in document
\* order with every run of whitespace collapsed to one space and the ends
\* stripped; null without an abstract container.
C10_AbstractNormalised ==
    Done =>
        LET abstract_elem == SelectSeq(Descendants(soup), IsAbstract)
        IN  result.main_paper.abstract =
                IF abstract_elem = <<>> THEN None
                ELSE strip(collapse(concat(abstract_elem[1].strings)))

=============================================================================
